---- MODULE Spec2Model ----
(* A model of the go-paypal client (src/paypal.go): the configuration      *)
(* loader (Load, Create), the three provider calls (Auth, CreateOrder,      *)
(* Capture) and the helpers they use (ensureTrailingSlash, the cents to     *)
(* float64 conversion and its JSON rendering).                              *)
(*                                                                          *)
(* Go strings are sequences of one-character strings, so that concatenation *)
(* and suffix tests are computed as the code computes them.                 *)
EXTENDS Integers, Sequences, FiniteSets, TLC

VARIABLES
    ubase,      \* SpecUrl: the order endpoint base handed to Capture
    uid,        \* SpecUrl: the order id handed to Capture
    utarget,    \* SpecUrl: the request target Capture built, or None
    cents,      \* SpecAmount: euroCents handed to CreateOrder
    amount,     \* SpecAmount: the Amount of the purchase unit, or None
    amountJson, \* SpecAmount: the Amount as json.Marshal renders it, or None
    fs,         \* SpecLoad: storage, the state of every path
    last,       \* SpecLoad: the last Load call and what it returned, or None
    made,       \* SpecLoad: the paths Load created and nobody has written since
    loads,      \* SpecLoad: the Load calls made so far
    edits,      \* SpecLoad: the writes by the operator so far
    config,     \* Spec: the Config the calls are made on
    cfg0,       \* Spec: the Config as it was handed to the first call
    call,       \* Spec: per goroutine, the call it is in
    nCalls,     \* Spec: the calls begun so far
    nDo,        \* Spec: the requests handed to the HTTP client so far
    nWire       \* Spec: the requests the HTTP client put on the network so far

urlVars == <<ubase, uid, utarget>>
amountVars == <<cents, amount, amountJson>>
loadVars == <<fs, last, made, loads, edits>>
httpVars == <<config, cfg0, call, nCalls, nDo, nWire>>
vars == <<urlVars, amountVars, loadVars, httpVars>>

\* An optional value: None, or Some(v).
None == <<>>
Some(v) == <<v>>
Get(o) == o[1]

UrlIdle == ubase = <<>> /\ uid = <<>> /\ utarget = None
AmountIdle == cents = 0 /\ amount = None /\ amountJson = None
LoadIdle == fs = <<>> /\ last = None /\ made = {} /\ loads = 0 /\ edits = 0
HttpIdle == config = <<>> /\ cfg0 = <<>> /\ call = <<>> /\ nCalls = 0 /\ nDo = 0 /\ nWire = 0

(***************************************************************************)
(* Bounds of the model.                                                    *)
(***************************************************************************)
MaxBaseLen == 4
MaxIdLen == 2
MaxCents == 150
MaxValLen == 1
MaxLoads == 3
MaxEdits == 1
MaxCalls == 3

(***************************************************************************)
(* Strings.                                                                *)
(***************************************************************************)
\* All sequences over the alphabet A of length at most n.
StrsUpTo(A, n) == UNION {[1..k -> A] : k \in 0..n}

Slash == "/"

\* strings.HasSuffix(s, "/")
HasSuffixSlash(s) == Len(s) > 0 /\ s[Len(s)] = Slash

\* A plausible slip: the separator is appended whatever the base ends in.
ensureTrailingSlashAlways(s) == s \o <<Slash>>

\* func ensureTrailingSlash(s string) string
ensureTrailingSlash(s) == IF HasSuffixSlash(s) THEN s ELSE s \o <<Slash>>

\* The literal "/capture".
CaptureSuffix == <<"/", "c", "a", "p", "t", "u", "r", "e">>

\* The URL argument of http.NewRequest in Capture.
CaptureURL(orderAPI, orderID) == ensureTrailingSlash(orderAPI) \o orderID \o CaptureSuffix


(***************************************************************************)
(* float64.  A non-negative double is its integer part and the bits of its *)
(* fraction (most significant first, trailing zeros dropped), so that two  *)
(* doubles are equal exactly when their records are.  The significand      *)
(* holds MantBits bits counted from the leading one.                       *)
(***************************************************************************)
MantBits == 53

\* 2^n, for n within the width of a TLC integer.
RECURSIVE Pow2(_)
Pow2(n) == IF n = 0 THEN 1 ELSE 2 * Pow2(n - 1)

\* The number of bits of q.
BitLen(q) == Cardinality({n \in 0..30 : Pow2(n) <= q})

\* Bits are handled eight at a time, which keeps every product small: the
\* size of the next chunk of n bits.
ChunkOf(n) == IF n < 8 THEN n ELSE 8

\* The j bits of v < 2^j, most significant first.
ChunkBits(v, j) == [i \in 1..j |-> (v \div Pow2(j - i)) % 2]

\* The number a chunk of bits (most significant first) denotes.
RECURSIVE ChunkVal(_)
ChunkVal(c) == IF c = <<>> THEN 0 ELSE 2 * ChunkVal(SubSeq(c, 1, Len(c) - 1)) + c[Len(c)]

\* The first n bits of r/den (r < den) after the binary point.
RECURSIVE FracBits(_, _, _)
FracBits(r, den, n) ==
    IF n = 0 THEN <<>>
    ELSE LET j == ChunkOf(n)
         IN ChunkBits((r * Pow2(j)) \div den, j) \o FracBits((r * Pow2(j)) % den, den, n - j)

\* What is left of r/den below those n bits, as a remainder of den.
RECURSIVE RemAfter(_, _, _)
RemAfter(r, den, n) ==
    IF n = 0 THEN r
    ELSE LET j == ChunkOf(n)
         IN RemAfter((r * Pow2(j)) % den, den, n - j)

\* The zero bits between the binary point and the leading one of r/den.
RECURSIVE LeadingZeros(_, _)
LeadingZeros(r, den) == IF 2 * r >= den THEN 0 ELSE 1 + LeadingZeros(2 * r, den)

\* One unit in the last place added to a bit string.
IncBits(b) ==
    LET zeros == {i \in 1..Len(b) : b[i] = 0}
    IN IF zeros = {}
       THEN [bits |-> [i \in 1..Len(b) |-> 0], carry |-> 1]
       ELSE LET k == CHOOSE i \in zeros : \A j \in zeros : j <= i
            IN [bits |-> [i \in 1..Len(b) |-> IF i < k THEN b[i] ELSE IF i = k THEN 1 ELSE 0],
                carry |-> 0]

StripZeros(b) ==
    LET ones == {i \in 1..Len(b) : b[i] = 1}
    IN IF ones = {} THEN <<>>
       ELSE SubSeq(b, 1, CHOOSE i \in ones : \A j \in ones : j <= i)

\* The double nearest to num/den, ties to even: IEEE 754 division of two
\* exactly representable integers, and also strconv.ParseFloat of the
\* decimal num/den.
F64Div(num, den) ==
    LET q == num \div den
        r == num % den
        nf == IF q > 0 THEN MantBits - BitLen(q)
              ELSE IF r > 0 THEN LeadingZeros(r, den) + MantBits ELSE 0
        raw == FracBits(r, den, nf)
        rem == RemAfter(r, den, nf)
        odd == IF nf > 0 THEN raw[nf] = 1 ELSE q % 2 = 1
        up == 2 * rem > den \/ (2 * rem = den /\ odd)
        inc == IF up THEN IncBits(raw) ELSE [bits |-> raw, carry |-> 0]
    IN [ip |-> q + inc.carry, fb |-> StripZeros(inc.bits)]

\* A fraction's bits times ten: the decimal digit carried out, and the bits
\* of what is left.
RECURSIVE Times10(_)
Times10(b) ==
    IF b = <<>> THEN [carry |-> 0, bits |-> <<>>]
    ELSE LET j == ChunkOf(Len(b))
             rest == Times10(SubSeq(b, j + 1, Len(b)))
             v == 10 * ChunkVal(SubSeq(b, 1, j)) + rest.carry
         IN [carry |-> v \div Pow2(j), bits |-> ChunkBits(v % Pow2(j), j) \o rest.bits]

\* strconv.FormatFloat(x, 'f', -1, 64), which encoding/json uses for a
\* float64 in [1e-6, 1e21): the decimal with the fewest digits that parses
\* back to x.  The result is digits / 10^scale; more is TRUE when no decimal
\* of at most two fractional digits parses back to x (the shortest one is
\* then longer, and digits / 10^scale is x cut to three places).
FormatFloat(x) ==
    LET t1 == Times10(x.fb)
        t2 == Times10(t1.bits)
        t3 == Times10(t2.bits)
        k0 == x.ip
        k1 == 10 * k0 + t1.carry
        k2 == 10 * k1 + t2.carry
        k3 == 10 * k2 + t3.carry
        Dec(k, n) == [digits |-> k, scale |-> n, more |-> FALSE]
    IN IF F64Div(k0, 1) = x THEN Dec(k0, 0)
       ELSE IF F64Div(k0 + 1, 1) = x THEN Dec(k0 + 1, 0)
       ELSE IF F64Div(k1, 10) = x THEN Dec(k1, 1)
       ELSE IF F64Div(k1 + 1, 10) = x THEN Dec(k1 + 1, 1)
       ELSE IF F64Div(k2, 100) = x THEN Dec(k2, 2)
       ELSE IF F64Div(k2 + 1, 100) = x THEN Dec(k2 + 1, 2)
       ELSE [digits |-> k3, scale |-> 3, more |-> TRUE]

\* x rounded to two decimal places, in hundredths (math.Round(x * 100) done
\* exactly).
RoundToCents(x) ==
    LET t1 == Times10(x.fb)
        t2 == Times10(t1.bits)
        t3 == Times10(t2.bits)
    IN 100 * x.ip + 10 * t1.carry + t2.carry + (IF t3.carry >= 5 THEN 1 ELSE 0)

(***************************************************************************)
(* The amount of CreateOrder's purchase unit.                              *)
(***************************************************************************)
EUR == <<"E", "U", "R">>

\* A plausible slip: the division is done on the integers.
AmountValueIntDiv(euroCents) == F64Div(euroCents \div 100, 1)

\* Value: float64(euroCents) / 100.0
AmountValue(euroCents) == F64Div(euroCents, 100)

\* Amount{CurrencyCode: "EUR", Value: float64(euroCents) / 100.0}
MakeAmount(euroCents) == [CurrencyCode |-> EUR, Value |-> AmountValue(euroCents)]

\* json.Marshal of an Amount: {"currency_code": ..., "value": ...}
MarshalAmount(a) == [currency_code |-> a.CurrencyCode, value |-> FormatFloat(a.Value)]

(***************************************************************************)
(* SpecAmount: the cents of CreateOrder, within the bounds and at sample    *)
(* values up to the largest amount.                                         *)
(***************************************************************************)
SampleCents == {1050, 2999, 12345678, 99999900, 99999999}
CentsSet == (0..MaxCents) \cup SampleCents

InitAmount ==
    /\ UrlIdle
    /\ LoadIdle
    /\ HttpIdle
    /\ cents \in CentsSet
    /\ amount = None
    /\ amountJson = None

\* CreateOrder builds the purchase unit's amount.
BuildAmount ==
    /\ amount = None
    /\ amount' = Some(MakeAmount(cents))
    /\ UNCHANGED <<cents, amountJson, urlVars, loadVars, httpVars>>

\* CreateOrder marshals the order request.
EncodeAmount ==
    /\ amount # None
    /\ amountJson = None
    /\ amountJson' = Some(MarshalAmount(Get(amount)))
    /\ UNCHANGED <<cents, amount, urlVars, loadVars, httpVars>>

NextAmount == BuildAmount \/ EncodeAmount

SpecAmount == InitAmount /\ [][NextAmount]_vars

\* 10^(2 - n) for a scale n of at most 2.
Hundredths(dec) == dec.digits * (IF dec.scale = 0 THEN 100 ELSE IF dec.scale = 1 THEN 10 ELSE 1)

\* C9: the amount CreateOrder sends has currency "EUR" and a decimal value
\* that is exactly cents/100 (at most two fractional digits, value * 100 =
\* cents), and the float64 it is rendered from rounds to cents at two places.
C9_AmountRoundTrips ==
    /\ amount # None =>
        /\ Get(amount).CurrencyCode = EUR
        /\ RoundToCents(Get(amount).Value) = cents
    /\ amountJson # None =>
        /\ Get(amountJson).currency_code = EUR
        /\ ~Get(amountJson).value.more
        /\ Hundredths(Get(amountJson).value) = cents
        /\ cents = 100 => Get(amountJson).value = [digits |-> 1, scale |-> 0, more |-> FALSE]
        /\ cents = 7 => Get(amountJson).value = [digits |-> 7, scale |-> 2, more |-> FALSE]
        /\ cents = 99999999 =>
              Get(amountJson).value = [digits |-> 99999999, scale |-> 2, more |-> FALSE]

\* C9 witness: 1050 cents were rendered as 10.5.
C9_Witness ==
    /\ cents = 1050
    /\ amountJson # None
    /\ Get(amountJson).value = [digits |-> 105, scale |-> 1, more |-> FALSE]

(***************************************************************************)
(* Config and its JSON form.  A JSON text is garbage (not JSON at all), a  *)
(* top-level null or array, or an object: a sequence of members, each a    *)
(* key and a value, the value a string (its raw, escaped characters), a    *)
(* number or null.                                                         *)
(***************************************************************************)
Quote == "\""
Backslash == "\\"

\* The names of Config's fields and their json tags, in declaration order.
Fields == <<"OAuthAPI", "OrderAPI", "ClientID", "Secret">>
Tags == <<"oauth-api", "order-api", "client-id", "secret">>

\* &Config{}
ZeroConfig == [OAuthAPI |-> <<>>, OrderAPI |-> <<>>, ClientID |-> <<>>, Secret |-> <<>>]

\* A string as encoding/json writes it between quotes.
RECURSIVE Escape(_)
Escape(str) ==
    IF str = <<>> THEN <<>>
    ELSE (IF Head(str) \in {Quote, Backslash} THEN <<Backslash, Head(str)>> ELSE <<Head(str)>>)
         \o Escape(Tail(str))

\* The string a raw JSON string denotes.
RECURSIVE Unescape(_)
Unescape(raw) ==
    IF raw = <<>> THEN <<>>
    ELSE IF Head(raw) = Backslash /\ Len(raw) > 1
         THEN <<raw[2]>> \o Unescape(Tail(Tail(raw)))
         ELSE <<Head(raw)>> \o Unescape(Tail(raw))

JString(str) == [t |-> "string", raw |-> Escape(str)]
JNumber == [t |-> "number", raw |-> <<"1">>]
JNull == [t |-> "null", raw |-> <<>>]
Member(k, v) == [key |-> k, val |-> v]
JObject(ms) == [kind |-> "object", members |-> ms]
Garbage == [kind |-> "garbage", members |-> <<>>]
TopNull == [kind |-> "null", members |-> <<>>]
TopArray == [kind |-> "array", members |-> <<>>]

\* json.Marshal(config): every field, in declaration order, under its tag.
Marshal(cfg) == JObject([i \in 1..4 |-> Member(Tags[i], JString(cfg[Fields[i]]))])

\* Errors, as the values the caller can tell apart.
Err(kind, arg) == [kind |-> kind, arg |-> arg]

\* The members of ms that carry key k and are not null: the ones that
\* assign the field.
Assigning(ms, k) == {i \in 1..Len(ms) : ms[i].key = k /\ ms[i].val.t # "null"}

\* What json.Unmarshal leaves in a field tagged k: the last string member
\* carrying the key, the zero value without one.
FieldValue(ms, k) ==
    LET strs == {i \in Assigning(ms, k) : ms[i].val.t = "string"}
    IN IF strs = {} THEN <<>>
       ELSE Unescape(ms[CHOOSE i \in strs : \A j \in strs : j <= i].val.raw)

\* json.Unmarshal(data, v) on a zero struct v whose string fields carry
\* the tags strTags and whose int fields the tags numTags: the value of
\* every field, and the error returned (a text that is no JSON fills
\* nothing; the first member of a known key whose value has the wrong type
\* is reported, and the other members are still stored).
UnmarshalInto(data, strTags, numTags, typeName) ==
    LET zero == [k \in strTags \cup numTags |-> IF k \in strTags THEN <<>> ELSE <<"0">>]
    IN IF data.kind = "garbage" THEN [vals |-> zero, err |-> Some(Err("syntax", <<>>))]
       ELSE IF data.kind = "array" THEN [vals |-> zero, err |-> Some(Err("type", <<typeName>>))]
       ELSE IF data.kind = "null" THEN [vals |-> zero, err |-> None]
       ELSE LET ms == data.members
                bad == {i \in 1..Len(ms) :
                          \/ ms[i].key \in strTags /\ ms[i].val.t = "number"
                          \/ ms[i].key \in numTags /\ ms[i].val.t = "string"}
                NumValue(k) ==
                    LET nums == {i \in Assigning(ms, k) : ms[i].val.t = "number"}
                    IN IF nums = {} THEN <<"0">>
                       ELSE ms[CHOOSE i \in nums : \A j \in nums : j <= i].val.raw
            IN [vals |-> [k \in strTags \cup numTags |->
                            IF k \in strTags THEN FieldValue(ms, k) ELSE NumValue(k)],
                err |-> IF bad = {} THEN None
                        ELSE Some(Err("type", <<ms[CHOOSE i \in bad : \A j \in bad : i <= j].key>>))]

\* json.Unmarshal(data, config) on a zero Config: the Config it fills and
\* the error it returns.
Unmarshal(data) ==
    LET d == UnmarshalInto(data, {Tags[i] : i \in 1..4}, {}, "Config")
    IN [config |-> [OAuthAPI |-> d.vals[Tags[1]], OrderAPI |-> d.vals[Tags[2]],
                    ClientID |-> d.vals[Tags[3]], Secret |-> d.vals[Tags[4]]],
        err |-> d.err]

(***************************************************************************)
(* Storage.  A path is absent, unreadable (it exists, and os.ReadFile      *)
(* fails with an error other than "not exist": a directory, a file of      *)
(* another user), or a file with its data and permission bits.             *)
(***************************************************************************)
Absent == [kind |-> "absent", data |-> Garbage, mode |-> ""]
Unreadable == [kind |-> "unreadable", data |-> Garbage, mode |-> ""]
File(data, mode) == [kind |-> "file", data |-> data, mode |-> mode]

\* A plausible slip: the placeholder is left readable by everyone.
CreateWorldReadable(jsonPath, file, writeOK) ==
    IF writeOK
    THEN [file |-> File(Marshal(ZeroConfig), "0644"), err |-> Err("created", <<jsonPath>>)]
    ELSE [file |-> file, err |-> Err("write", <<jsonPath>>)]

\* func Create(jsonPath string) error.  writeOK says whether os.WriteFile
\* succeeds; the result is the state of the path afterwards and the error
\* returned, which is never nil.
Create(jsonPath, file, writeOK) ==
    IF writeOK
    THEN [file |-> File(Marshal(ZeroConfig), "0600"), err |-> Err("created", <<jsonPath>>)]
    ELSE [file |-> file, err |-> Err("write", <<jsonPath>>)]

\* A plausible slip: the last of the four checks is forgotten.
MissingFieldNoSecret(cfg) ==
    IF cfg.OAuthAPI = <<>> THEN Some(Err("missing", <<"oauth-api">>))
    ELSE IF cfg.OrderAPI = <<>> THEN Some(Err("missing", <<"order-api">>))
    ELSE IF cfg.ClientID = <<>> THEN Some(Err("missing", <<"client-id">>))
    ELSE None

\* A plausible slip: the last check is written the wrong way round.
MissingFieldSecretInverted(cfg) ==
    IF cfg.OAuthAPI = <<>> THEN Some(Err("missing", <<"oauth-api">>))
    ELSE IF cfg.OrderAPI = <<>> THEN Some(Err("missing", <<"order-api">>))
    ELSE IF cfg.ClientID = <<>> THEN Some(Err("missing", <<"client-id">>))
    ELSE IF cfg.Secret # <<>> THEN Some(Err("missing", <<"secret">>))
    ELSE None

\* The four checks of Load, in order: the error of the first empty field.
MissingField(cfg) ==
    IF cfg.OAuthAPI = <<>> THEN Some(Err("missing", <<"oauth-api">>))
    ELSE IF cfg.OrderAPI = <<>> THEN Some(Err("missing", <<"order-api">>))
    ELSE IF cfg.ClientID = <<>> THEN Some(Err("missing", <<"client-id">>))
    ELSE IF cfg.Secret = <<>> THEN Some(Err("missing", <<"secret">>))
    ELSE None

\* func Load(jsonPath string) (*Config, error): the Config returned (or
\* None for nil), the error (or None for nil) and the state of the path
\* afterwards.
LoadResult(jsonPath, file, writeOK) ==
    IF file.kind = "absent"
    THEN LET c == Create(jsonPath, file, writeOK)
         IN [config |-> None, err |-> Some(c.err), file |-> c.file]
    ELSE IF file.kind = "unreadable"
    THEN [config |-> None, err |-> Some(Err("read", <<jsonPath>>)), file |-> file]
    ELSE LET u == Unmarshal(file.data)
         IN IF u.err # None THEN [config |-> None, err |-> u.err, file |-> file]
            ELSE IF MissingField(u.config) # None
            THEN [config |-> None, err |-> MissingField(u.config), file |-> file]
            ELSE [config |-> Some(u.config), err |-> None, file |-> file]

(***************************************************************************)
(* SpecLoad: Load on a storage of two paths, and an operator who may fill  *)
(* in a file.                                                              *)
(***************************************************************************)
Paths == {"paypal.json", "other.json"}

\* The Configs whose JSON the files hold: endpoints over one letter,
\* credentials over a letter and a quote, which JSON writes escaped.
Endpoints == StrsUpTo({"a"}, MaxValLen)
Credentials == StrsUpTo({"a", Quote}, MaxValLen)
Configs == [OAuthAPI : Endpoints, OrderAPI : Endpoints, ClientID : Credentials, Secret : Credentials]

AllSet(cfg) == \A i \in 1..4 : cfg[Fields[i]] # <<>>
SampleConfig == [OAuthAPI |-> <<"a">>, OrderAPI |-> <<"a">>, ClientID |-> <<Quote>>, Secret |-> <<"a">>]

\* JSON texts that are not the JSON of a Config.
OddDocs ==
    { Garbage, TopNull, TopArray,
      JObject(<<>>),
      JObject(<<Member("oauth-api", JString(<<"a">>)), Member("secret", JString(<<"a">>))>>),
      JObject(Marshal(SampleConfig).members \o <<Member("comment", JNumber)>>),
      JObject(<<Member("secret", JNumber)>> \o Marshal(SampleConfig).members),
      JObject(<<Member("order-api", JNumber), Member("oauth-api", JNumber)>>),
      JObject(Marshal(SampleConfig).members \o <<Member("client-id", JNull)>>),
      JObject(Marshal(ZeroConfig).members \o Marshal(SampleConfig).members) }

Docs == {Marshal(c) : c \in Configs} \cup OddDocs

InitLoad ==
    /\ UrlIdle
    /\ AmountIdle
    /\ HttpIdle
    /\ \E f \in {Absent, Unreadable} \cup {File(d, m) : d \in Docs, m \in {"0600", "0644"}} :
       \E g \in {Absent, File(Marshal(SampleConfig), "0644")} :
          fs = [p \in Paths |-> IF p = "paypal.json" THEN f ELSE g]
    /\ last = None
    /\ made = {}
    /\ loads = 0
    /\ edits = 0

\* The program calls Load(p).
Load(p) ==
    /\ loads < MaxLoads
    /\ \E writeOK \in BOOLEAN :
          LET r == LoadResult(p, fs[p], writeOK)
          IN /\ fs' = [fs EXCEPT ![p] = r.file]
             /\ last' = Some([path |-> p, pre |-> fs, second |-> p \in made,
                           config |-> r.config, err |-> r.err])
             /\ made' = IF fs[p].kind = "absent" /\ r.file.kind = "file" THEN made \cup {p} ELSE made
    /\ loads' = loads + 1
    /\ UNCHANGED <<edits, urlVars, amountVars, httpVars>>

\* The operator fills in the file at p.
OperatorWrites(p) ==
    /\ edits < MaxEdits
    /\ fs[p].kind = "file"
    /\ \E d \in {Marshal(SampleConfig), Garbage} :
          fs' = [fs EXCEPT ![p] = File(d, fs[p].mode)]
    /\ last' = None
    /\ made' = made \ {p}
    /\ edits' = edits + 1
    /\ UNCHANGED <<loads, urlVars, amountVars, httpVars>>

NextLoad == \E p \in Paths : Load(p) \/ OperatorWrites(p)

SpecLoad == InitLoad /\ [][NextLoad]_vars

\* The state of the loaded path before the last Load call.
PreFile == Get(last).pre[Get(last).path]

\* The placeholder Create writes.
Placeholder == File(Marshal(ZeroConfig), "0600")

C7_LoadRoundTrip ==
    last # None =>
        \A c \in Configs :
            (AllSet(c) /\ PreFile.kind = "file" /\ PreFile.data = Marshal(c)) =>
                /\ Get(last).err = None
                /\ Get(last).config = Some(c)
                /\ \A i \in 1..4 : Get(Get(last).config)[Fields[i]] = c[Fields[i]]
                /\ fs = Get(last).pre

\* C7 witness: a Config with a quote in a field came back from its JSON.
C7_Witness ==
    /\ last # None
    /\ PreFile.kind = "file"
    /\ Get(last).config # None
    /\ PreFile.data = Marshal(Get(Get(last).config))
    /\ \E i \in 1..4 : Quote \in {Get(Get(last).config)[Fields[i]][j] :
                                    j \in 1..Len(Get(Get(last).config)[Fields[i]])}

\* C8 as stated: whenever Load of an existing file fails to parse it or
\* finds a field empty, it returns no Config and an error naming an
\* offending field, and writes nothing.
C8_ErrorNamesField ==
    (last # None /\ PreFile.kind = "file" /\ Get(last).config = None) =>
        /\ Get(last).err # None
        /\ Get(Get(last).err).kind \in {"missing", "type"}
        /\ Get(Get(last).err).arg \in {<<Tags[i]>> : i \in 1..4}
        /\ fs = Get(last).pre

\* C8 amended: Load of an existing path never returns a Config with an
\* empty field and never writes.  If the text is no JSON, or no JSON
\* object, it returns no Config and the decoder's error, which names no
\* field; if a known key carries a value of the wrong type, the decoder's
\* error naming that key; if parsing succeeds and a field is empty, no
\* Config and the error naming the first empty field in the order
\* oauth-api, order-api, client-id, secret.
C8_NoEmptyField ==
    (last # None /\ PreFile.kind # "absent") =>
        LET l == Get(last)
            d == PreFile.data
        IN /\ fs = l.pre
           /\ (l.config = None) # (l.err = None)
           /\ l.config # None => AllSet(Get(l.config))
           /\ PreFile.kind = "unreadable" => l.err = Some(Err("read", <<l.path>>))
           /\ (PreFile.kind = "file" /\ d.kind = "garbage") => l.err = Some(Err("syntax", <<>>))
           /\ (PreFile.kind = "file" /\ d.kind = "array") => l.err = Some(Err("type", <<"Config">>))
           /\ (PreFile.kind = "file" /\ d.kind \in {"object", "null"}) =>
                LET bad == {i \in 1..Len(d.members) :
                              d.members[i].key \in {Tags[j] : j \in 1..4}
                              /\ d.members[i].val.t = "number"}
                IN IF bad # {}
                   THEN /\ l.config = None
                        /\ Get(l.err).kind = "type"
                        /\ Get(l.err).arg \in {<<d.members[i].key>> : i \in bad}
                   ELSE \/ l.config # None
                        \/ /\ Get(l.err).kind = "missing"
                           /\ \E i \in 1..4 :
                                /\ Get(l.err).arg = <<Tags[i]>>
                                /\ FieldValue(d.members, Tags[i]) = <<>>
                                /\ \A j \in 1..(i - 1) : FieldValue(d.members, Tags[j]) # <<>>

\* C8 witness: a file whose only empty field is the secret was refused
\* with the error naming it.
C8_Witness ==
    /\ last # None
    /\ PreFile.kind = "file"
    /\ Get(last).config = None
    /\ Get(last).err = Some(Err("missing", <<"secret">>))
    /\ fs = Get(last).pre


(***************************************************************************)
(* URLs, as net/http reads them.                                           *)
(***************************************************************************)
Letters == {"a", "c", "e", "h", "o", "p", "r", "s", "t", "u"}
Http == <<"h", "t", "t", "p">>
Https == <<"h", "t", "t", "p", "s">>

\* The least member of a non-empty set of numbers.
Least(S) == CHOOSE i \in S : \A j \in S : i <= j

\* url.Parse's split of a URL into scheme and rest: letters up to a colon
\* are the scheme; a URL that starts with a colon does not parse.
SplitScheme(u) ==
    LET others == {i \in 1..Len(u) : u[i] \notin Letters}
    IN IF others = {} \/ u[Least(others)] # ":"
       THEN [ok |-> TRUE, scheme |-> <<>>, rest |-> u]
       ELSE IF Least(others) = 1
       THEN [ok |-> FALSE, scheme |-> <<>>, rest |-> u]
       ELSE [ok |-> TRUE, scheme |-> SubSeq(u, 1, Least(others) - 1),
             rest |-> SubSeq(u, Least(others) + 1, Len(u))]

\* The host of a URL: what follows "//" up to the next "/".
HostOf(rest) ==
    IF Len(rest) >= 2 /\ rest[1] = Slash /\ rest[2] = Slash
    THEN LET after == SubSeq(rest, 3, Len(rest))
             slashes == {i \in 1..Len(after) : after[i] = Slash}
         IN IF slashes = {} THEN after ELSE SubSeq(after, 1, Least(slashes) - 1)
    ELSE <<>>

\* http.NewRequest returns no error: the URL parses.
NewRequestOK(u) == SplitScheme(u).ok

\* (&http.Client{}).Do puts the request on the network: the scheme is http
\* or https and there is a host.  It fails before any I/O otherwise.
ClientAccepts(u) ==
    /\ SplitScheme(u).scheme \in {Http, Https}
    /\ HostOf(SplitScheme(u).rest) # <<>>

(***************************************************************************)
(* The three calls.                                                        *)
(***************************************************************************)
StatusOK == 200
StatusCreated == 201

\* What the caller hands to a call: the AccessToken of auth, the order id,
\* the cents.  (description, customID and invoiceID are copied into the
\* purchase unit as they are.)
Input(token, orderID, euroCents) == [token |-> token, orderID |-> orderID, cents |-> euroCents]
NoInput == Input(<<>>, <<>>, 0)
Description == <<"d">>
CustomID == <<"c">>
InvoiceID == <<"i">>

\* The cents the calls of Spec are made with, and the amount of each as
\* CreateOrder marshals it (a table, so that it is computed once).
CentsOfCalls == {0, 1050}
AmountJsonOf == [c \in CentsOfCalls |-> MarshalAmount(MakeAmount(c))]

\* orderRequest, marshalled.
OrderRequestJson(euroCents) ==
    [intent |-> "CAPTURE",
     purchase_units |-> <<[amount |-> AmountJsonOf[euroCents],
                           description |-> Description,
                           custom_id |-> CustomID,
                           invoice_id |-> InvoiceID]>>,
     application_context |-> [shipping_preference |-> "NO_SHIPPING"]]

\* The URL each call hands to http.NewRequest.
TargetOf(op, cfg, in) ==
    IF op = "Auth" THEN cfg.OAuthAPI
    ELSE IF op = "CreateOrder" THEN cfg.OrderAPI
    ELSE CaptureURL(cfg.OrderAPI, in.orderID)

Request(url, authz, ctype, body) ==
    [method |-> "POST", url |-> url, accept |-> "application/json",
     authorization |-> authz, contentType |-> ctype, body |-> body]

\* The request Auth builds.
AuthRequest(cfg) ==
    Request(TargetOf("Auth", cfg, NoInput), <<"Basic", cfg.ClientID, cfg.Secret>>, "",
            <<"grant_type=client_credentials">>)

\* The request CreateOrder builds.
CreateOrderRequest(cfg, in) ==
    Request(TargetOf("CreateOrder", cfg, in), <<"Bearer", in.token>>, "application/json",
            <<OrderRequestJson(in.cents)>>)

\* The request Capture builds.
CaptureRequest(cfg, in) ==
    Request(TargetOf("Capture", cfg, in), <<"Bearer", in.token>>, "application/json",
            <<>>)

RequestOf(op, cfg, in) ==
    IF op = "Auth" THEN AuthRequest(cfg)
    ELSE IF op = "CreateOrder" THEN CreateOrderRequest(cfg, in)
    ELSE CaptureRequest(cfg, in)

\* A plausible slip: any 2xx status counts as success.
IsExpectedStatusAny2xx(op, status) == status \in {StatusOK, StatusCreated}

\* The status check of each call: resp.StatusCode != http.StatusOK for
\* Auth, != http.StatusCreated for CreateOrder and Capture.
IsExpectedStatus(op, status) ==
    IF op = "Auth" THEN status = StatusOK ELSE status = StatusCreated

\* The typed result of each call, decoded from the body: AuthResult,
\* GenerateOrderResponse, CaptureResponse.  (Their nested arrays and
\* structs are decoded by the same rules; the model keeps the scalars.)
DecodeBody(op, body) ==
    IF op = "Auth"
    THEN UnmarshalInto(body, {"scope", "access_token", "token_type", "app_id", "nonce"},
                       {"expires_in"}, "AuthResult")
    ELSE IF op = "CreateOrder"
    THEN UnmarshalInto(body, {"id", "status"}, {}, "GenerateOrderResponse")
    ELSE UnmarshalInto(body, {"id", "status"}, {}, "CaptureResponse")

\* What a call returns: the result pointer (None for nil) and the error
\* (None for nil).
Ret(res, err) == [res |-> res, err |-> err]

\* The provider's part of a call.  kind is "transport" (Do returns an
\* error), "readfail" (a response arrived and reading its body failed) or
\* "response" (a response with its body).
Outcome(kind, status, body) == [kind |-> kind, status |-> status, body |-> body]

\* The code of each call after Do: the transport error, the body read, the
\* status check, the decoding.
AfterDo(op, out) ==
    IF out.kind = "transport" THEN Ret(None, Some(Err("transport", <<>>)))
    ELSE IF out.kind = "readfail" THEN Ret(None, Some(Err("readbody", <<>>)))
    ELSE IF ~IsExpectedStatus(op, out.status)
    THEN Ret(None, Some(Err("status", <<out.status, out.body>>)))
    ELSE LET d == DecodeBody(op, out.body) IN Ret(Some(d.vals), d.err)

(***************************************************************************)
(* Spec: goroutines calling Auth, CreateOrder and Capture on one Config.   *)
(***************************************************************************)
Procs == {"g1", "g2"}
Ops == {"Auth", "CreateOrder", "Capture"}

UAuth == <<"h", "t", "t", "p", ":", "/", "/", "h", "/", "t">>
UOrder == <<"h", "t", "t", "p", "s", ":", "/", "/", "h", "/", "o">>
UOrderSlash == UOrder \o <<Slash>>
URelative == <<"h", "/", "o">>
UNoParse == <<":", "h">>

Cfg(a, o, i, x) == [OAuthAPI |-> a, OrderAPI |-> o, ClientID |-> i, Secret |-> x]

\* The Configs of the model: a Config is an exported struct, so a caller
\* may build one that Load would refuse.
HttpConfigs ==
    { Cfg(UAuth, UOrder, <<"i">>, <<"x">>),
      Cfg(UAuth, UOrderSlash, <<"i">>, <<"x">>),
      Cfg(<<>>, <<>>, <<"i">>, <<"x">>),
      Cfg(UAuth, UOrder, <<>>, <<>>),
      Cfg(URelative, URelative, <<"i">>, <<"x">>),
      Cfg(UNoParse, UNoParse, <<"i">>, <<"x">>) }

Tokens == {<<>>, <<"t">>}
OrderIDs == {<<>>, <<"o">>}

Inputs(op) ==
    IF op = "Auth" THEN {NoInput}
    ELSE IF op = "CreateOrder" THEN {Input(t, <<>>, c) : t \in Tokens, c \in CentsOfCalls}
    ELSE {Input(t, o, 0) : t \in Tokens, o \in OrderIDs}

\* The bodies the provider answers with.
Bodies ==
    { Garbage,
      JObject(<<>>),
      JObject(<<Member("access_token", JString(<<"t">>)), Member("expires_in", JNumber),
                Member("id", JString(<<"o">>)), Member("status", JString(<<"s">>))>>),
      JObject(<<Member("id", JNumber), Member("access_token", JNumber),
                Member("status", JString(<<"s">>)), Member("token_type", JString(<<"t">>))>>) }
Statuses == {StatusOK, StatusCreated, 403}

Outcomes ==
    {Outcome("transport", 0, Garbage)}
    \cup {Outcome("readfail", st, Garbage) : st \in Statuses}
    \cup {Outcome("response", st, b) : st \in Statuses, b \in Bodies}

IdleCall ==
    [pc |-> "idle", op |-> "Auth", in |-> NoInput, req |-> None, out |-> None,
     ret |-> Ret(None, None), dos |-> 0, wire |-> 0]

Init ==
    /\ UrlIdle
    /\ AmountIdle
    /\ LoadIdle
    /\ config \in HttpConfigs
    /\ cfg0 = config
    /\ call = [p \in Procs |-> IdleCall]
    /\ nCalls = 0
    /\ nDo = 0
    /\ nWire = 0

\* A plausible slip: Capture stores the normalised endpoint in the Config.
ConfigAfterBuildStoring(op, cfg) ==
    IF op = "Capture" THEN [cfg EXCEPT !.OrderAPI = ensureTrailingSlash(@)] ELSE cfg

\* The Config after a call built its request: no call assigns to it.
ConfigAfterBuild(op, cfg) == cfg

\* A goroutine enters a call, which builds its request with
\* http.NewRequest and sets the headers; it returns the error if the URL
\* does not parse.
Begin(p, op, in) ==
    /\ call[p].pc = "idle"
    /\ nCalls < MaxCalls
    /\ LET r == RequestOf(op, config, in)
           c == [IdleCall EXCEPT !.op = op, !.in = in]
       IN call' = [call EXCEPT ![p] =
                     IF NewRequestOK(r.url)
                     THEN [c EXCEPT !.pc = "built", !.req = Some(r)]
                     ELSE [c EXCEPT !.pc = "done",
                                    !.ret = Ret(None, Some(Err("newrequest", <<>>)))]]
    /\ config' = ConfigAfterBuild(op, config)
    /\ nCalls' = nCalls + 1
    /\ UNCHANGED <<cfg0, nDo, nWire, urlVars, amountVars, loadVars>>

\* The call hands its request to the HTTP client, which puts it on the
\* network or refuses it.
Do(p) ==
    /\ call[p].pc = "built"
    /\ nDo' = nDo + 1
    /\ IF ClientAccepts(Get(call[p].req).url)
       THEN /\ call' = [call EXCEPT ![p].pc = "waiting", ![p].dos = @ + 1, ![p].wire = @ + 1]
            /\ nWire' = nWire + 1
       ELSE /\ call' = [call EXCEPT ![p].pc = "done", ![p].dos = @ + 1,
                                    ![p].ret = Ret(None, Some(Err("transport", <<>>)))]
            /\ nWire' = nWire
    /\ UNCHANGED <<config, cfg0, nCalls, urlVars, amountVars, loadVars>>

\* A plausible slip: a call whose exchange failed sends its request again.
SettleRetrying(c, out) ==
    IF out.kind = "transport" THEN [c EXCEPT !.pc = "built"]
    ELSE [c EXCEPT !.pc = "done", !.out = Some(out), !.ret = AfterDo(c.op, out)]

\* The call has the provider's part and returns.
Settle(c, out) == [c EXCEPT !.pc = "done", !.out = Some(out), !.ret = AfterDo(c.op, out)]

\* The exchange of a call on the network ends: Do returns, the body is
\* read, and the call runs to its return.
Respond(p, out) ==
    /\ call[p].pc = "waiting"
    /\ call' = [call EXCEPT ![p] = Settle(call[p], out)]
    /\ UNCHANGED <<config, cfg0, nCalls, nDo, nWire, urlVars, amountVars, loadVars>>

\* The caller has the return values; the goroutine is free for another call.
Return(p) ==
    /\ call[p].pc = "done"
    /\ call' = [call EXCEPT ![p] = IdleCall]
    /\ UNCHANGED <<config, cfg0, nCalls, nDo, nWire, urlVars, amountVars, loadVars>>

Next ==
    \E p \in Procs :
        \/ \E op \in Ops : \E in \in Inputs(op) : Begin(p, op, in)
        \/ Do(p)
        \/ \E out \in Outcomes : Respond(p, out)
        \/ Return(p)

Spec == Init /\ [][Next]_vars

\* The calls that have returned and not yet been taken by the caller.
Returned == {p \in Procs : call[p].pc = "done"}

\* C1 as stated: no request is on the network from a call whose access
\* token or order id was empty, or whose Config has an empty field.
C1_NoRequestWithEmptyInput ==
    \A p \in Procs :
        call[p].wire > 0 =>
            /\ AllSet(config)
            /\ call[p].op \in {"CreateOrder", "Capture"} => call[p].in.token # <<>>
            /\ call[p].op = "Capture" => call[p].in.orderID # <<>>

\* C2 as stated: a call that has returned has returned a result or an
\* error, never both and never neither.
C2_ResultXorError ==
    \A p \in Returned : (call[p].ret.res = None) # (call[p].ret.err = None)

\* The provider's part of a returned call is a response of the status the
\* call expects (200 for Auth, 201 for CreateOrder and Capture).
GotExpected(c) ==
    /\ c.out # None
    /\ Get(c.out).kind = "response"
    /\ Get(c.out).status = (IF c.op = "Auth" THEN 200 ELSE 201)

C5_OnlyExpectedStatus ==
    \A p \in Returned :
        LET c == call[p]
        IN /\ c.ret.err = None => GotExpected(c)
           /\ (c.out # None /\ Get(c.out).kind = "response" /\ ~GotExpected(c)) =>
                 /\ c.ret.res = None
                 /\ c.ret.err = Some(Err("status", <<Get(c.out).status, Get(c.out).body>>))

\* C5 witness: Auth answered 201 with a body that is no JSON returned the
\* status error, and no result.
C5_Witness ==
    \E p \in Returned :
        /\ call[p].op = "Auth"
        /\ call[p].out = Some(Outcome("response", 201, Garbage))
        /\ call[p].ret = Ret(None, Some(Err("status", <<201, Garbage>>)))

\* C10: no call changes the Config, and what a call sends and returns is
\* decided by its own inputs, the Config and the provider's answer to it:
\* two calls of the same operation with the same inputs build the same
\* request, and with the same answer return the same, whatever the other
\* goroutine did meanwhile and whatever calls came before.
C10_CallsIndependent ==
    /\ config = cfg0
    /\ \A p \in Procs :
          call[p].req # None => Get(call[p].req) = RequestOf(call[p].op, cfg0, call[p].in)
    /\ \A p, q \in Procs :
          (call[p].op = call[q].op /\ call[p].in = call[q].in) =>
              /\ (call[p].req # None /\ call[q].req # None) => call[p].req = call[q].req
              /\ (p \in Returned /\ q \in Returned /\ call[p].out = call[q].out) =>
                    /\ call[p].ret = call[q].ret
                    /\ call[p].dos = call[q].dos
                    /\ call[p].wire = call[q].wire

\* C10 witness: Capture succeeded as the first call ever made, with no
\* CreateOrder before it, while the other goroutine was inside Auth.
C10_Witness ==
    \E p, q \in Procs :
        /\ p # q
        /\ nCalls = 2
        /\ p \in Returned
        /\ call[p].op = "Capture"
        /\ call[p].ret.err = None
        /\ call[p].ret.res # None
        /\ call[q].op = "Auth"
        /\ call[q].pc = "waiting"

(***************************************************************************)
(* SpecUrl: Capture's request target, for every base and order id within   *)
(* the bounds.                                                             *)
(***************************************************************************)
UrlAlphabet == {"a", Slash}
IdAlphabet == {"o", Slash}

InitUrl ==
    /\ AmountIdle
    /\ LoadIdle
    /\ HttpIdle
    /\ ubase \in StrsUpTo(UrlAlphabet, MaxBaseLen)
    /\ uid \in StrsUpTo(IdAlphabet, MaxIdLen) \ {<<>>}
    /\ utarget = None

\* Capture builds its request target from the base and the order id.
BuildTarget ==
    /\ utarget = None
    /\ utarget' = Some(CaptureURL(ubase, uid))
    /\ UNCHANGED <<ubase, uid, amountVars, loadVars, httpVars>>

NextUrl == BuildTarget

SpecUrl == InitUrl /\ [][NextUrl]_vars

\* The base without the one trailing separator it may carry.
WithoutOneSlash(s) == IF HasSuffixSlash(s) THEN SubSeq(s, 1, Len(s) - 1) ELSE s

\* C6: the target of Capture is base + "/" + id + "/capture" when the base
\* does not end in "/", and base + id + "/capture" when it does; exactly one
\* separator stands between the base (less its own trailing separator) and
\* the order id; normalising a normalised base changes nothing.
C6_CaptureTarget ==
    utarget # None =>
        /\ ~HasSuffixSlash(ubase) => Get(utarget) = ubase \o <<Slash>> \o uid \o CaptureSuffix
        /\ HasSuffixSlash(ubase) => Get(utarget) = ubase \o uid \o CaptureSuffix
        /\ Get(utarget) = WithoutOneSlash(ubase) \o <<Slash>> \o uid \o CaptureSuffix
        /\ ensureTrailingSlash(ensureTrailingSlash(ubase)) = ensureTrailingSlash(ubase)

\* C6 witness: a target was built for a base that already ends in "/".
C6_Witness ==
    /\ utarget # None
    /\ HasSuffixSlash(ubase)
    /\ Len(ubase) > 1
    /\ Get(utarget) = ubase \o uid \o CaptureSuffix

====
